---- MODULE Spec2Model ----
(***************************************************************************)
(* Model of taxonomic-classification/combine-sequential-b-outputs.py, the  *)
(* combiner of per-sample Bracken reports (function main), as run by a     *)
(* Python 3.7+ interpreter (the repository's other scripts use f-strings): *)
(* dicts iterate in insertion order, "/" on ints is true division, and     *)
(* dict.keys() is a view that cannot be subscripted.                       *)
(*                                                                         *)
(* The command line (the number of --files and the --names list) is chosen *)
(* in Init.  The contents of the input files are chosen line by line as    *)
(* the program reads them, and recorded in the history variable files.     *)
(***************************************************************************)
EXTENDS Integers, Sequences, FiniteSets, TLC

\* ---------------------------------------------------------------- bounds
MaxFiles == 2       \* at most this many --files
MaxRows == 3        \* at most this many data rows over all input files

\* ------------------------------------------------------- input alphabets
\* new_est_reads fields of a Bracken report: counts of reads
EstReads == {0, 5, 10}

Row(name, taxid, taxlvl, estreads) ==
    [name |-> name, taxid |-> taxid, taxlvl |-> taxlvl, estreads |-> estreads]

\* rows of two taxa at level S, with any of the counts
UsualRows ==
    {Row("fox", "9606", "S", e) : e \in EstReads}
        \cup {Row("cat", "9685", "S", e) : e \in EstReads}

\* rows that differ from a usual row in one field: another taxonomy_id for
\* fox, an empty taxonomy_lvl field (an empty third column), and a negative
\* count, which int() accepts
OddRows ==
    {Row("fox", "9607", "S", 5), Row("fox", "9606", "", 5), Row("fox", "9606", "S", -5)}

\* the data lines that split into seven fields with an integer sixth field
DataRows == UsualRows \cup OddRows

\* The lists all_samples can hold after lines 42-50: the base names of the
\* files or the comma-separated --names, which need not be as many as the
\* files nor distinct.  Names are opaque: the lists taken are those of
\* distinct names and those whose second name repeats the first.
NamePool == <<"s1", "s2", "s3", "s4">>

DistinctList(n) == [j \in 1..n |-> NamePool[j]]

RepeatList(n) == [j \in 1..n |-> NamePool[IF j = 2 THEN 1 ELSE j]]

NameLists ==
    {DistinctList(n) : n \in 1..MaxFiles} \cup {RepeatList(n) : n \in 2..MaxFiles}

VARIABLES nfiles, all_samples, total_reads, sample_counts, level, i,
          i_file, header, curr_name, pc, err, o_file, total_num_all_samples,
          files, rerun

vars == <<nfiles, all_samples, total_reads, sample_counts, level, i,
          i_file, header, curr_name, pc, err, o_file, total_num_all_samples,
          files, rerun>>

\* ------------------------------------------------------------- helpers
Range(s) == {s[j] : j \in DOMAIN s}

RECURSIVE SumSeq(_)
SumSeq(s) == IF s = <<>> THEN 0 ELSE Head(s) + SumSeq(Tail(s))

RECURSIVE SumFun(_)
\* sum(d.values()) of a dict d
SumFun(d) ==
    IF DOMAIN d = {} THEN 0
    ELSE LET x == CHOOSE x \in DOMAIN d : TRUE
         IN d[x] + SumFun([y \in DOMAIN d \ {x} |-> d[y]])

Abs(n) == IF n < 0 THEN 0 - n ELSE n

\* "%0.5f" % (n / d) for d # 0, in units of 0.00001: the quotient rounded
\* to the nearest multiple of 0.00001.  (An exact tie needs 64 to divide d,
\* which the bounds on est_reads exclude.)
Frac5(n, d) ==
    LET q == (2 * Abs(n) * 100000 + Abs(d)) \div (2 * Abs(d))
    IN IF (n < 0) # (d < 0) THEN 0 - q ELSE q

NoErr == [type |-> "", msg |-> <<>>]

\* index of name among the keys of sample_counts, 0 if it is not a key
KeyIndex(sc, name) ==
    IF \E j \in DOMAIN sc : sc[j].name = name
    THEN CHOOSE j \in DOMAIN sc : sc[j].name = name
    ELSE 0

\* ------------------------------------------------- ingestion of one row
\* The dict an unordered (or last-in-first-out) iteration would give.
NewTaxonFront(sc, name, taxid) ==
    <<[name |-> name, taxid |-> taxid, counts |-> <<>>]>> \o sc

\* lines 71-73: a name not seen before gets an entry keyed by its taxid,
\* appended to the dict (insertion order is iteration order)
NewTaxon(sc, name, taxid) ==
    Append(sc, [name |-> name, taxid |-> taxid, counts |-> <<>>])

\* lines 71-75: the taxonomy ID check.  The mismatch branch builds its
\* message with sample_counts[name].keys()[0], which raises TypeError
\* before sys.exit is called.
CheckTaxid(sc, name, taxid) ==
    LET j == KeyIndex(sc, name)
    IN IF j = 0
       THEN [sample_counts |-> NewTaxon(sc, name, taxid), err |-> NoErr]
       ELSE IF taxid # sc[j].taxid
            THEN [sample_counts |-> sc,
                  err |-> [type |-> "TypeError",
                           msg |-> <<"'dict_keys' object is not subscriptable">>]]
            ELSE [sample_counts |-> sc, err |-> NoErr]

\* The check a missing comparison would give: the last level read wins.
CheckLevelLastWins(lvl, taxlvl) ==
    [level |-> taxlvl, err |-> NoErr]

\* lines 76-79: the level check; level = '' means "no level seen yet"
CheckLevel(lvl, taxlvl) ==
    IF Len(lvl) = 0
    THEN [level |-> taxlvl, err |-> NoErr]
    ELSE IF lvl # taxlvl
         THEN [level |-> lvl,
               err |-> [type |-> "SystemExit",
                        msg |-> <<"Taxonomy level not matching between samples">>]]
         ELSE [level |-> lvl, err |-> NoErr]

\* The total a plain assignment would keep: the last row's reads.
AddTotalOverwrite(tr, sample, estreads) ==
    [tr EXCEPT ![sample] = estreads]

\* line 81: total_reads[curr_name] += estreads
AddTotal(tr, sample, estreads) ==
    [tr EXCEPT ![sample] = @ + estreads]

\* line 82: sample_counts[name][taxid][curr_name] = estreads (an assignment)
SaveCount(sc, name, sample, estreads) ==
    LET j == KeyIndex(sc, name)
    IN [sc EXCEPT ![j].counts = (sample :> estreads) @@ @]

\* lines 68-82 for one well-formed data row of the sample curr
ProcessLine(st, row, curr) ==
    LET t == CheckTaxid(st.sample_counts, row.name, row.taxid)
        l == CheckLevel(st.level, row.taxlvl)
    IN IF t.err # NoErr
       THEN [st EXCEPT !.err = t.err]
       ELSE IF l.err # NoErr
            THEN [st EXCEPT !.sample_counts = t.sample_counts, !.err = l.err]
            ELSE [sample_counts |-> SaveCount(t.sample_counts, row.name, curr, row.estreads),
                  total_reads |-> AddTotal(st.total_reads, curr, row.estreads),
                  level |-> l.level,
                  err |-> NoErr]

\* ------------------------------------------------------------------ Init
\* lines 38-53
Init ==
    /\ nfiles \in 1..MaxFiles
    /\ all_samples \in NameLists
    /\ total_reads = [s \in Range(all_samples) |-> 0]
    /\ sample_counts = <<>>
    /\ level = ""
    /\ i = 0
    /\ i_file = "closed"
    /\ header = FALSE
    /\ curr_name = ""
    /\ pc = "ingest"
    /\ err = NoErr
    /\ o_file = [state |-> "absent", header |-> <<>>, rows |-> <<>>]
    /\ total_num_all_samples = 0
    /\ files = <<>>
    /\ rerun = <<>>

RowsRead == SumSeq([j \in DOMAIN files |-> Len(files[j])])

\* lines 54-61: the next file is opened; all_samples[i] raises IndexError
\* when there are fewer names than files
OpenFile ==
    /\ pc = "ingest" /\ i_file = "closed" /\ i < nfiles
    /\ IF i + 1 > Len(all_samples)
       THEN /\ pc' = "failed"
            /\ err' = [type |-> "IndexError", msg |-> <<"list index out of range">>]
            /\ UNCHANGED <<curr_name, i, header, i_file, files>>
       ELSE /\ curr_name' = all_samples[i + 1]
            /\ i' = i + 1
            /\ header' = TRUE
            /\ i_file' = "open"
            /\ files' = Append(files, <<>>)
            /\ UNCHANGED <<pc, err>>
    /\ UNCHANGED <<nfiles, all_samples, total_reads, sample_counts, level,
                   o_file, total_num_all_samples, rerun>>

\* lines 62-66: the first line of a file is skipped, whatever it holds
SkipHeader ==
    /\ pc = "ingest" /\ i_file = "open" /\ header
    /\ header' = FALSE
    /\ UNCHANGED <<nfiles, all_samples, total_reads, sample_counts, level, i,
                   i_file, curr_name, pc, err, o_file, total_num_all_samples,
                   files, rerun>>

\* lines 62-82: a well-formed data line
ReadRow ==
    /\ pc = "ingest" /\ i_file = "open" /\ ~header
    /\ RowsRead < MaxRows
    /\ \E row \in DataRows :
         LET st == ProcessLine([sample_counts |-> sample_counts,
                                total_reads |-> total_reads,
                                level |-> level, err |-> NoErr], row, curr_name)
         IN /\ sample_counts' = st.sample_counts
            /\ total_reads' = st.total_reads
            /\ level' = st.level
            /\ err' = st.err
            /\ pc' = IF st.err = NoErr THEN "ingest" ELSE "failed"
            /\ files' = [files EXCEPT ![Len(files)] = Append(@, row)]
    /\ UNCHANGED <<nfiles, all_samples, i, i_file, header, curr_name, o_file,
                   total_num_all_samples, rerun>>

\* lines 68-69: a data line that does not split into seven fields, or whose
\* sixth field int() rejects, raises ValueError
ReadMalformed ==
    /\ pc = "ingest" /\ i_file = "open" /\ ~header
    /\ RowsRead < MaxRows
    /\ pc' = "failed"
    /\ err' = [type |-> "ValueError", msg |-> <<>>]
    /\ UNCHANGED <<nfiles, all_samples, total_reads, sample_counts, level, i,
                   i_file, header, curr_name, o_file, total_num_all_samples,
                   files, rerun>>

\* lines 62, 84: end of file (an empty file has no header line either)
CloseFile ==
    /\ pc = "ingest" /\ i_file = "open"
    /\ i_file' = "closed"
    /\ header' = FALSE
    /\ UNCHANGED <<nfiles, all_samples, total_reads, sample_counts, level, i,
                   curr_name, pc, err, o_file, total_num_all_samples, files,
                   rerun>>

\* ------------------------------------------------------------ the output
\* lines 88-91: the header line, one cell per column
RECURSIVE SampleHeader(_)
SampleHeader(samples) ==
    IF samples = <<>> THEN <<>>
    ELSE << <<Head(samples), "_num">>, <<Head(samples), "_frac">> >>
         \o SampleHeader(Tail(samples))

HeaderLine(samples) ==
    << <<"name">>, <<"taxonomy_id">>, <<"taxonomy_lvl">> >>
    \o SampleHeader(samples)
    \o << <<"total_num">>, <<"total_frac">> >>

\* lines 109-116: the per-sample cells of one taxon, in all_samples order.
\* float(num)/float(total_reads[sample]) raises ZeroDivisionError when the
\* sample's total is 0; the cells written before that stay written, so a
\* result shorter than samples means the fault was raised.
RECURSIVE SampleCols(_, _, _)
SampleCols(counts, samples, tr) ==
    IF samples = <<>> THEN <<>>
    ELSE LET sample == Head(samples)
         IN IF sample \in DOMAIN counts
            THEN IF tr[sample] = 0
                 THEN <<>>
                 ELSE <<[num |-> counts[sample],
                         frac |-> Frac5(counts[sample], tr[sample])]>>
                      \o SampleCols(counts, Tail(samples), tr)
            ELSE <<[num |-> 0, frac |-> 0]>>
                 \o SampleCols(counts, Tail(samples), tr)

\* The total fraction Python 2's integer "/" would give.
TotalFracIntDiv(total_num, total_all) ==
    IF total_all # 0 THEN (total_num \div total_all) * 100000 ELSE 0

\* lines 119, 121: total_num / total_num_all_samples, guarded, as "%0.5f"
TotalFrac(total_num, total_all) ==
    IF total_all # 0 THEN Frac5(total_num, total_all) ELSE 0

\* lines 102-121 for one key of sample_counts: the line written, and
\* whether line 112 raised before the line was complete
OutRow(entry, samples, tr, lvl, total_all) ==
    LET cols == SampleCols(entry.counts, samples, tr)
        fault == Len(cols) < Len(samples)
        total_num == SumSeq([j \in DOMAIN cols |-> cols[j].num])
    IN [line |-> [name |-> entry.name, taxid |-> entry.taxid, level |-> lvl,
                  cols |-> cols,
                  total |-> IF fault THEN <<>>
                            ELSE <<total_num, TotalFrac(total_num, total_all)>>],
        fault |-> fault]

ZeroDivision == [type |-> "ZeroDivisionError", msg |-> <<"float division by zero">>]

\* lines 87-99: the output file is created and its header written, and the
\* grand total is taken.  (total_counts of lines 96-99 is never read.)
WriteHeader ==
    /\ pc = "ingest" /\ i_file = "closed" /\ i = nfiles
    /\ o_file' = [state |-> "open", header |-> HeaderLine(all_samples), rows |-> <<>>]
    /\ total_num_all_samples' = SumFun(total_reads)
    /\ pc' = "rows"
    /\ UNCHANGED <<nfiles, all_samples, total_reads, sample_counts, level, i,
                   i_file, header, curr_name, err, files, rerun>>

\* lines 102-121: the line of the next key of sample_counts
WriteRow ==
    /\ pc = "rows" /\ Len(o_file.rows) < Len(sample_counts)
    /\ LET r == OutRow(sample_counts[Len(o_file.rows) + 1], all_samples,
                       total_reads, level, total_num_all_samples)
       IN /\ o_file' = [o_file EXCEPT !.rows = Append(@, r.line)]
          /\ pc' = IF r.fault THEN "failed" ELSE "rows"
          /\ err' = IF r.fault THEN ZeroDivision ELSE err
    /\ UNCHANGED <<nfiles, all_samples, total_reads, sample_counts, level, i,
                   i_file, header, curr_name, total_num_all_samples, files, rerun>>

\* line 123
CloseOutput ==
    /\ pc = "rows" /\ Len(o_file.rows) = Len(sample_counts)
    /\ o_file' = [o_file EXCEPT !.state = "closed"]
    /\ pc' = "done"
    /\ UNCHANGED <<nfiles, all_samples, total_reads, sample_counts, level, i,
                   i_file, header, curr_name, err, total_num_all_samples,
                   files, rerun>>

\* --------------------------------------------- a whole run, as a function
\* lines 62-82 over the data rows of one file, stopping at the first error
RECURSIVE IngestRows(_, _, _)
IngestRows(st, rows, curr) ==
    IF rows = <<>> \/ st.err # NoErr THEN st
    ELSE IngestRows(ProcessLine(st, Head(rows), curr), Tail(rows), curr)

\* lines 54-84 over the files from the j-th on
RECURSIVE IngestFiles(_, _, _, _)
IngestFiles(st, fs, names, j) ==
    IF j > Len(fs) \/ st.err # NoErr THEN st
    ELSE IF j > Len(names)
         THEN [st EXCEPT !.err = [type |-> "IndexError",
                                  msg |-> <<"list index out of range">>]]
         ELSE IngestFiles(IngestRows(st, fs[j], names[j]), fs, names, j + 1)

\* lines 102-121 over the keys from the k-th on, stopping after a fault
RECURSIVE OutRows(_, _, _, _, _, _)
OutRows(sc, samples, tr, lvl, total_all, k) ==
    IF k > Len(sc) THEN <<>>
    ELSE LET r == OutRow(sc[k], samples, tr, lvl, total_all)
         IN IF r.fault THEN <<r.line>>
            ELSE <<r.line>> \o OutRows(sc, samples, tr, lvl, total_all, k + 1)

\* main() on the files fs (their data rows) with the sample names `names`
RunMain(fs, names) ==
    LET st == IngestFiles([sample_counts |-> <<>>,
                           total_reads |-> [s \in Range(names) |-> 0],
                           level |-> "", err |-> NoErr], fs, names, 1)
        rows == OutRows(st.sample_counts, names, st.total_reads, st.level,
                        SumFun(st.total_reads), 1)
        fault == rows # <<>> /\ rows[Len(rows)].total = <<>>
    IN IF st.err # NoErr
       THEN [pc |-> "failed", err |-> st.err,
             o_file |-> [state |-> "absent", header |-> <<>>, rows |-> <<>>]]
       ELSE IF fault
            THEN [pc |-> "failed", err |-> ZeroDivision,
                  o_file |-> [state |-> "open", header |-> HeaderLine(names),
                              rows |-> rows]]
            ELSE [pc |-> "done", err |-> NoErr,
                  o_file |-> [state |-> "closed", header |-> HeaderLine(names),
                              rows |-> rows]]

\* the orders, other than the given one, in which n files can be listed
Perms(n) ==
    {p \in [1..n -> 1..n] :
        /\ \A a, b \in 1..n : p[a] = p[b] => a = b
        /\ \E a \in 1..n : p[a] # a}

\* A second run of the program on the same files, listed in another order
\* together with their names.
Rerun ==
    /\ pc = "done" /\ rerun = <<>>
    /\ Len(all_samples) = nfiles
    /\ \E p \in Perms(nfiles) :
         rerun' = <<[perm |-> p,
                     run |-> RunMain([j \in 1..nfiles |-> files[p[j]]],
                                     [j \in 1..nfiles |-> all_samples[p[j]]])]>>
    /\ UNCHANGED <<nfiles, all_samples, total_reads, sample_counts, level, i,
                   i_file, header, curr_name, pc, err, o_file,
                   total_num_all_samples, files>>

Next ==
    \/ OpenFile
    \/ SkipHeader
    \/ ReadRow
    \/ ReadMalformed
    \/ CloseFile
    \/ WriteHeader
    \/ WriteRow
    \/ CloseOutput
    \/ Rerun

Spec == Init /\ [][Next]_vars

\* ------------------------------------------- the input, as it was read
RECURSIVE Flatten(_)
Flatten(fs) == IF fs = <<>> THEN <<>> ELSE Head(fs) \o Flatten(Tail(fs))

\* every data row read so far, in reading order
AllRows == Flatten(files)

RECURSIVE FirstSeen(_, _)
\* the names of rows, each kept at its first occurrence only
FirstSeen(rows, seen) ==
    IF rows = <<>> THEN <<>>
    ELSE IF Head(rows).name \in seen THEN FirstSeen(Tail(rows), seen)
         ELSE <<Head(rows).name>> \o FirstSeen(Tail(rows), seen \cup {Head(rows).name})

RowNames(rows) == [k \in DOMAIN rows |-> rows[k].name]

DistinctNames == \A a, b \in DOMAIN all_samples : all_samples[a] = all_samples[b] => a = b

NonNegativeInput == \A k \in DOMAIN AllRows : AllRows[k].estreads >= 0

\* no file names a taxon in two of its rows
NoRepeatedTaxon ==
    \A j \in DOMAIN files : \A a, b \in DOMAIN files[j] :
        files[j][a].name = files[j][b].name => a = b

\* the command line gives every file a name of its own, and no count read
\* so far is negative
PlainRun == DistinctNames /\ Len(all_samples) = nfiles /\ NonNegativeInput

\* est_reads of the last row named name in the rows, 0 if there is none
RECURSIVE LastEst(_, _)
LastEst(rows, name) ==
    IF rows = <<>> THEN 0
    ELSE IF rows[Len(rows)].name = name THEN rows[Len(rows)].estreads
         ELSE LastEst(SubSeq(rows, 1, Len(rows) - 1), name)

\* the count the program holds for (entry, sample), 0 if it holds none
CountOf(entry, sample) ==
    IF sample \in DOMAIN entry.counts THEN entry.counts[sample] ELSE 0

InUnit(f) == 0 <= f /\ f <= 100000

\* f is n / d (d # 0) to the nearest 0.00001, in units of 0.00001
IsRounded5(f, n, d) == 2 * Abs(f * d - n * 100000) <= Abs(d)

\* The run written as a function agrees with the run taken step by step.
RunMainAgreesWithSteps ==
    (pc = "done" \/ (pc = "failed" /\ err.type \notin {"ValueError", "IndexError"})) =>
        LET run == RunMain(files, all_samples)
        IN run.pc = pc /\ run.err = err /\ run.o_file = o_file

\* ------------------------------------------------------------------ C1
\* C1: in the output of a completed run (of a plain command line on
\* non-negative counts, the well-formed case), for every sample column, the
\* counts written in the sample's _num column add up to the sample's
\* running total, the denominator of its _frac column.
C1_ColumnSumsEqualSampleTotals ==
    (pc = "done" /\ PlainRun) =>
        \A j \in DOMAIN all_samples :
            SumSeq([k \in DOMAIN o_file.rows |-> o_file.rows[k].cols[j].num])
                = total_reads[all_samples[j]]

\* ------------------------------------------------------------------ C2
\* C2: conservation of reads: in a completed run (of a plain command line
\* on non-negative counts) the total_num values written over all taxon rows add up to the sum of the per-sample totals.
C2_TotalNumsEqualGrandTotal ==
    (pc = "done" /\ PlainRun) =>
        SumSeq([k \in DOMAIN o_file.rows |-> o_file.rows[k].total[1]])
            = total_num_all_samples

\* ------------------------------------------------------------------ C3
\* C3: in a plain run a sample whose total is 0 never makes the run fail: once the input
\* has been ingested the run raises no division fault, and a completed run
\* has fraction 0 in every cell of a sample whose total is 0.
C3_ZeroTotalGivesZeroFraction ==
    PlainRun =>
    /\ err.type # "ZeroDivisionError"
    /\ pc = "done" =>
         \A j \in DOMAIN all_samples :
            total_reads[all_samples[j]] = 0 =>
                \A k \in DOMAIN o_file.rows : o_file.rows[k].cols[j].frac = 0

\* ------------------------------------------------------------------ C4
\* C4: all-or-nothing output: a plain run that ended in a fatal error has not
\* opened or written the output file.
C4_FailedRunLeavesNoOutput ==
    (pc = "failed" /\ PlainRun) => o_file.state = "absent"

\* ------------------------------------------------------------------ C5
\* the last row read names a taxon whose first row had another taxonomy_id
TaxidConflictAt(rows, k) ==
    \E a \in 1..(k - 1) :
        /\ rows[a].name = rows[k].name
        /\ \A b \in 1..(a - 1) : rows[b].name # rows[k].name
        /\ rows[a].taxid # rows[k].taxid

FirstTaxid(rows, name) ==
    rows[CHOOSE a \in DOMAIN rows :
            rows[a].name = name /\ \A b \in 1..(a - 1) : rows[b].name # name].taxid

\* C5: in a plain run a row whose taxonomy_id differs from the one first seen for its name
\* makes the run fail at that row, with an error that names the taxon and
\* the two conflicting IDs; rows with matching IDs never raise that error.
C5_TaxidMismatchReported ==
    LET rows == AllRows
        n == Len(rows)
    IN PlainRun =>
       /\ pc # "failed" => \A k \in DOMAIN rows : ~TaxidConflictAt(rows, k)
       /\ (pc = "failed" /\ n > 0 /\ TaxidConflictAt(rows, n)) =>
            /\ err.type = "SystemExit"
            /\ err.msg = <<"Taxonomy IDs not matching for species", rows[n].name,
                           rows[n].taxid, FirstTaxid(rows, rows[n].name)>>
       /\ (n > 0 /\ ~TaxidConflictAt(rows, n)) =>
            err.type \notin {"TypeError"} /\ (err.msg # <<>> =>
                err.msg[1] # "Taxonomy IDs not matching for species")

\* ------------------------------------------------------------------ C6
\* C6: in a plain run the level of the first data row read, whatever it is, is the level
\* every later row must carry: a run that has not failed has read rows of
\* that level only, and every output row carries it.
C6_FirstLevelIsExpectedLevel ==
    (pc # "failed" /\ AllRows # <<>> /\ PlainRun) =>
        /\ \A k \in DOMAIN AllRows : AllRows[k].taxlvl = AllRows[1].taxlvl
        /\ \A k \in DOMAIN o_file.rows : o_file.rows[k].level = AllRows[1].taxlvl

\* ------------------------------------------------------------------ C7
FractionsInUnit(out) ==
    \A k \in DOMAIN out.rows :
        /\ InUnit(out.rows[k].total[2])
        /\ \A j \in DOMAIN out.rows[k].cols : InUnit(out.rows[k].cols[j].frac)

\* C7 as stated: every fraction written by a completed run lies in [0, 1],
\* whatever integers the est_reads fields hold (here already for distinct
\* sample names and files that name no taxon twice).
C7_FractionsInUnitAnyIntegers ==
    (pc = "done" /\ DistinctNames /\ NoRepeatedTaxon) => FractionsInUnit(o_file)

\* C7 as amended: every fraction written by a completed run lies in [0, 1]
\* when no est_reads is negative and the sample names are distinct.
C7_FractionsInUnit ==
    (pc = "done" /\ NonNegativeInput /\ DistinctNames) => FractionsInUnit(o_file)

C7_Witness ==
    /\ pc = "done" /\ NonNegativeInput /\ DistinctNames
    /\ \E k \in DOMAIN o_file.rows : \E j \in DOMAIN all_samples :
          /\ o_file.rows[k].cols[j].frac \notin {0, 100000}
          /\ o_file.rows[k].total[2] \notin {0, 100000}

\* ------------------------------------------------------------------ C8
ScenarioFiles ==
    << <<Row("fox", "9606", "S", 10)>>, <<Row("fox", "9606", "S", 5)>> >>

ScenarioRow ==
    [name |-> "fox", taxid |-> "9606", level |-> "S",
     cols |-> <<[num |-> 10, frac |-> 100000], [num |-> 5, frac |-> 100000]>>,
     total |-> <<15, 100000>>]

\* C8: in a completed run every taxon row holds, per sample, the taxon's
\* count and the count over the sample's total; total_num is the sum of
\* the taxon's counts over the samples and total_frac is total_num over
\* the sum of the sample totals (0 if that sum is 0).  The files fox 10 and
\* fox 5 named s1, s2 give the row fox 9606 S 10 1.00000 5 1.00000 15 1.00000.
C8_RowTotals ==
    pc = "done" =>
        /\ Len(o_file.rows) = Len(sample_counts)
        /\ \A k \in DOMAIN o_file.rows :
            LET line == o_file.rows[k]
                entry == sample_counts[k]
                grand == SumFun(total_reads)
                sum == SumSeq([j \in DOMAIN all_samples |->
                                  CountOf(entry, all_samples[j])])
            IN /\ line.total[1] = sum
               /\ grand # 0 => IsRounded5(line.total[2], sum, grand)
               /\ grand = 0 => line.total[2] = 0
               /\ \A j \in DOMAIN all_samples :
                    LET s == all_samples[j]
                    IN /\ line.cols[j].num = CountOf(entry, s)
                       /\ s \in DOMAIN entry.counts =>
                            IsRounded5(line.cols[j].frac, entry.counts[s], total_reads[s])
                       /\ s \notin DOMAIN entry.counts => line.cols[j].frac = 0
        /\ (files = ScenarioFiles /\ all_samples = <<"s1", "s2">>) =>
                o_file.rows = <<ScenarioRow>>

C8_Witness ==
    /\ pc = "done" /\ files = ScenarioFiles /\ all_samples = <<"s1", "s2">>
    /\ o_file.rows = <<ScenarioRow>>

\* ------------------------------------------------------------------ C9
\* C9: a completed run has written one row per distinct taxon name, in the
\* order in which the names were first read, and one column pair per
\* sample in all_samples order; with distinct names the j-th pair holds
\* the counts read from the j-th file (0 where there is no such file).
C9_RowAndColumnOrder ==
    pc = "done" =>
        /\ RowNames(o_file.rows) = FirstSeen(AllRows, {})
        /\ Len(o_file.header) = 5 + 2 * Len(all_samples)
        /\ \A j \in DOMAIN all_samples :
            /\ o_file.header[2 + 2 * j] = <<all_samples[j], "_num">>
            /\ o_file.header[3 + 2 * j] = <<all_samples[j], "_frac">>
        /\ \A k \in DOMAIN o_file.rows :
            /\ Len(o_file.rows[k].cols) = Len(all_samples)
            /\ DistinctNames =>
                \A j \in DOMAIN all_samples :
                    o_file.rows[k].cols[j].num =
                        LastEst(IF j <= Len(files) THEN files[j] ELSE <<>>,
                                o_file.rows[k].name)

C9_Witness ==
    /\ pc = "done" /\ nfiles = 2 /\ DistinctNames
    /\ RowNames(o_file.rows) = <<"cat", "fox">>
    /\ RowNames(files[1]) = <<"cat">>
    /\ "cat" \in Range(RowNames(files[2]))

\* ----------------------------------------------------------------- C10
BothRunsDone == pc = "done" /\ rerun # <<>> /\ rerun[1].run.pc = "done"

\* the second run's line for the same taxon differs from the first run's
\* only in the order of its per-sample cells
SameUpToColumns(line1, line2, p) ==
    /\ line2.name = line1.name
    /\ line2.taxid = line1.taxid
    /\ line2.level = line1.level
    /\ line2.total = line1.total
    /\ Len(line2.cols) = Len(line1.cols)
    /\ \A j \in DOMAIN line2.cols : line2.cols[j] = line1.cols[p[j]]

\* C10 as stated: listing the files in another order changes only the
\* order of the per-sample columns; the taxon rows keep their order (here
\* already for a plain command line and files that name no taxon twice).
C10_RowOrderUnchanged ==
    (BothRunsDone /\ PlainRun /\ NoRepeatedTaxon) =>
        LET out2 == rerun[1].run.o_file
        IN /\ Len(out2.rows) = Len(o_file.rows)
           /\ \A k \in DOMAIN o_file.rows :
                SameUpToColumns(o_file.rows[k], out2.rows[k], rerun[1].perm)

\* C10 as amended: with distinct sample names, listing the files in another
\* order gives the same taxon rows with the same values under each sample,
\* the columns in the order of the new list and the rows in the order in
\* which the new list makes the names first seen.
C10_SameRowsUpToOrder ==
    (BothRunsDone /\ DistinctNames) =>
        LET out2 == rerun[1].run.o_file
            p == rerun[1].perm
        IN /\ Len(out2.rows) = Len(o_file.rows)
           /\ \A j \in 1..nfiles :
                /\ out2.header[2 + 2 * j] = o_file.header[2 + 2 * p[j]]
                /\ out2.header[3 + 2 * j] = o_file.header[3 + 2 * p[j]]
           /\ \A k \in DOMAIN o_file.rows :
                \E k2 \in DOMAIN out2.rows :
                    SameUpToColumns(o_file.rows[k], out2.rows[k2], p)
           /\ RowNames(out2.rows) =
                FirstSeen(Flatten([j \in 1..nfiles |-> files[p[j]]]), {})

C10_Witness ==
    /\ BothRunsDone /\ DistinctNames
    /\ rerun[1].perm = <<2, 1>>
    /\ RowNames(o_file.rows) = <<"fox", "cat">>
    /\ RowNames(rerun[1].run.o_file.rows) = <<"cat", "fox">>
====
